---- MODULE Spec2Model ----
(***************************************************************************)
(* Model of the BLonD longitudinal kernel: beams/beams.py (class Beam) and *)
(* trackers/longitudinal_tracker.py (Kick, Kick_acceleration, Drift,       *)
(* Longitudinal_tracker).                                                  *)
(*                                                                         *)
(* Floating-point coordinates are held on an integer grid: energies and    *)
(* times in grid units, phases in quarter turns (so that sin is exact on   *)
(* the grid).  A quotient that leaves the grid is rounded down.            *)
(***************************************************************************)
EXTENDS Integers, Sequences, FiniteSets, TLC

\* ------------------------------------------------------------------ bounds
\* number of macro-particles handed to Beam.__init__
MaxParticles == 2
\* coordinates and cut bounds are drawn from 0..MaxCoord
MaxCoord == 2
\* the ring's harmonic, voltage and phi_offset lists have 0..MaxHarmonics entries
MaxHarmonics == 2
\* Longitudinal_tracker.track is called at most MaxTurns times
MaxTurns == 2

Coord == 0..MaxCoord
Particles == 1..MaxParticles
Solvers == {"full", "simple", "other"}

\* ------------------------------------------------------- numeric helpers
Abs(x) == IF x < 0 THEN -x ELSE x

RECURSIVE GCD(_, _)
GCD(a, b) == IF b = 0 THEN a ELSE GCD(b, a % b)

\* a float that is a ratio of grid values, in lowest terms
Rat(n, d) ==
    LET g == GCD(Abs(n), d) IN <<n \div g, d \div g>>

NaN == <<"nan">>

RECURSIVE SumOver(_, _)
SumOver(x, S) ==
    IF S = {} THEN 0
    ELSE LET i == CHOOSE j \in S : TRUE IN x[i] + SumOver(x, S \ {i})

\* np.mean over the selected indices; the mean of nothing is nan
Mean(x, S) ==
    IF S = {} THEN NaN ELSE Rat(SumOver(x, S), Cardinality(S))

\* np.std over the selected indices (population form), kept as its square:
\* <<"sqrt", n, d>> stands for sqrt(n/d)
Std(x, S) ==
    IF S = {} THEN NaN
    ELSE LET n  == Cardinality(S)
             s  == SumOver(x, S)
             s2 == SumOver([i \in DOMAIN x |-> x[i] * x[i]], S)
             v  == Rat(n * s2 - s * s, n * n)
         IN <<"sqrt", v[1], v[2]>>

\* np.pi * sigma_dE * sigma_dt: <<"pi*sqrt", n, d>> stands for pi*sqrt(n/d)
Emittance(sE, sT) ==
    IF sE = NaN \/ sT = NaN THEN NaN
    ELSE LET v == Rat(sE[2] * sT[2], sE[3] * sT[3])
         IN <<"pi*sqrt", v[1], v[2]>>

\* math.sin on the quarter-turn grid
Sin(k) == CASE k % 4 = 0 -> 0
            [] k % 4 = 1 -> 1
            [] k % 4 = 2 -> 0
            [] k % 4 = 3 -> -1

\* 2*np.pi in quarter turns
TwoPi == 4
\* scipy.constants c and e in grid units
c == 1
e == 1

\* ------------------------------------------------------------------ state
VARIABLES
    \* Beam; theta is the phase coordinate beam.theta that the tracker
    \* elements read and write
    dt, dE, id, theta, n_macroparticles,
    n_macroparticles_lost, mean_dt, mean_dE, sigma_dt, sigma_dE, epsn_rms_l,
    \* ring_and_RFstation object handed to the tracker
    ring,
    \* Longitudinal_tracker (NoTracker until constructed)
    tracker,
    \* control: where the driver is, which element of the loop runs next,
    \* what was raised, whether the length warning was printed
    pc, longMap, raised, warned,
    \* the operation that ran last
    last,
    \* the state at the start of the running/last track call, the elements
    \* it has run (each with its place in the list and the counter it saw),
    \* and the number of track calls made
    entry, trace, calls

beamVars == <<dt, dE, id, theta, n_macroparticles, n_macroparticles_lost,
              mean_dt, mean_dE, sigma_dt, sigma_dE, epsn_rms_l>>
statVars == <<n_macroparticles_lost, mean_dt, mean_dE, sigma_dt, sigma_dE,
              epsn_rms_l>>
trackVars == <<ring, tracker, longMap, raised, warned, entry, trace, calls>>
vars == <<beamVars, trackVars, pc, last>>

NoTracker == [solver |-> "none", kicks |-> <<>>, p_increment |-> 0,
              elements |-> <<>>]
NoEntry == [counter |-> 0, dE |-> <<>>, theta |-> <<>>]
Unset == <<"unset">>

\* the ring configurations a driver may hand over: the three lists are
\* filled independently, so they may differ in length
RingConfig(a, b, p) ==
    [harmonic      |-> [i \in 1..a |-> i],
     voltage       |-> [i \in 1..b |-> 2 * i],
     phi_offset    |-> [i \in 1..p |-> 2 * i - 1],
     length        |-> 1,
     circumference |-> 1,
     counter       |-> 0]

RingConfigs == {RingConfig(a, b, p) : a, b, p \in 0..MaxHarmonics}

\* ------------------------------------------------------------------- Beam
\* Beam.__init__
BeamInit ==
    /\ n_macroparticles = MaxParticles
    /\ dt = [i \in 1..MaxParticles |-> 0]
    /\ dE = [i \in 1..MaxParticles |-> 0]
    /\ theta = [i \in 1..MaxParticles |-> 0]
    /\ mean_dt = Rat(0, 1)
    /\ mean_dE = Rat(0, 1)
    /\ sigma_dt = <<"sqrt", 0, 1>>
    /\ sigma_dE = <<"sqrt", 0, 1>>
    /\ epsn_rms_l = Unset
    /\ n_macroparticles_lost = 0
    /\ id = [i \in 1..MaxParticles |-> i]

\* property Beam.n_macroparticles_alive
n_macroparticles_alive == n_macroparticles - n_macroparticles_lost

\* everything but the ring, after Beam.__init__ and before any tracker exists
Start ==
    /\ BeamInit
    /\ tracker = NoTracker
    /\ pc = "idle"
    /\ longMap = 0
    /\ raised = "none"
    /\ warned = FALSE
    /\ last = "Beam"
    /\ entry = NoEntry
    /\ trace = <<>>
    /\ calls = 0

\* a beam in a ring with one RF system
Init ==
    /\ Start
    /\ ring = RingConfig(1, 1, 1)

\* a beam in any of the ring configurations
InitTracker ==
    /\ Start
    /\ ring \in RingConfigs

\* the coordinate arrays a driver may fill in.  No operation depends on the
\* order of the particles, so only non-decreasing arrays are drawn.
Fillings ==
    {x \in [Particles -> Coord] : \A i, j \in Particles : i <= j => x[i] <= x[j]}

\* the driver fills the arrival times of the fresh beam (distributions module)
DistributionTime ==
    /\ pc = "idle"
    /\ last = "Beam"
    /\ dt' \in Fillings
    /\ last' = "distribution"
    /\ UNCHANGED <<dE, id, theta, n_macroparticles, statVars, trackVars, pc>>

\* the driver fills the energy offsets of the fresh beam (distributions module)
DistributionEnergy ==
    /\ pc = "idle"
    /\ last = "Beam"
    /\ dE' \in Fillings
    /\ last' = "distribution"
    /\ UNCHANGED <<dt, id, theta, n_macroparticles, statVars, trackVars, pc>>

\* np.where(cond)[0]: the indices where cond holds
Where(cond) == {i \in DOMAIN cond : cond[i]}

\* variant: the identifiers are rebuilt from the mask on every call
MarkLostRecompute(ids, itemindex) ==
    [i \in DOMAIN ids |-> IF i \in itemindex THEN 0 ELSE i]

\* variant: the lost particles are removed from the array
MarkLostRemove(ids, itemindex) ==
    LET keep == {i \in DOMAIN ids : i \notin itemindex}
    IN [k \in 1..Cardinality(keep) |->
          ids[CHOOSE i \in keep : Cardinality({j \in keep : j <= i}) = k]]

\* self.id[itemindex] = 0, guarded by itemindex.size != 0
MarkLost(ids, itemindex) ==
    IF itemindex # {}
    THEN [i \in DOMAIN ids |-> IF i \in itemindex THEN 0 ELSE ids[i]]
    ELSE ids

\* variant: the length of the alive selection is stored instead
LostCountFromAlive(ids) == Cardinality(Where([i \in DOMAIN ids |-> ids[i] # 0]))

\* len(np.where(self.id == 0)[0])
LostCount(ids) == Cardinality(Where([i \in DOMAIN ids |-> ids[i] = 0]))

\* Beam.statistics
statistics ==
    /\ pc = "idle"
    /\ LET itemindex == Where([i \in DOMAIN id |-> id[i] # 0]) IN
         /\ mean_dt' = Mean(dt, itemindex)
         /\ mean_dE' = Mean(dE, itemindex)
         /\ sigma_dt' = Std(dt, itemindex)
         /\ sigma_dE' = Std(dE, itemindex)
         /\ epsn_rms_l' = Emittance(sigma_dE', sigma_dt')
    /\ n_macroparticles_lost' = LostCount(id)
    /\ last' = "statistics"
    /\ UNCHANGED <<dt, dE, id, theta, n_macroparticles, trackVars, pc>>

\* Beam.losses_separatrix; in_separatrix is what is_in_separatrix returned
losses_separatrix(in_separatrix) ==
    /\ pc = "idle"
    /\ LET itemindex == Where([i \in DOMAIN id |-> in_separatrix[i] = FALSE])
       IN id' = MarkLost(id, itemindex)
    /\ last' = "losses_separatrix"
    /\ UNCHANGED <<dt, dE, theta, n_macroparticles, statVars, trackVars, pc>>

\* variant: the comparison is <= 0, so the boundary is cut as well
CutConditionInclusive(x, x_min, x_max) ==
    [i \in DOMAIN x |-> (x[i] - x_min) * (x_max - x[i]) <= 0]

\* (x - x_min)*(x_max - x) < 0, elementwise
CutCondition(x, x_min, x_max) ==
    [i \in DOMAIN x |-> (x[i] - x_min) * (x_max - x[i]) < 0]

\* variant: the cut also brings n_macroparticles_lost up to date
losses_longitudinal_cut_refresh(dt_min, dt_max) ==
    /\ pc = "idle"
    /\ LET itemindex == Where(CutCondition(dt, dt_min, dt_max))
       IN id' = MarkLost(id, itemindex)
    /\ n_macroparticles_lost' = LostCount(id')
    /\ last' = "losses_longitudinal_cut"
    /\ UNCHANGED <<dt, dE, theta, n_macroparticles, mean_dt, mean_dE,
                   sigma_dt, sigma_dE, epsn_rms_l, trackVars, pc>>

\* Beam.losses_longitudinal_cut
losses_longitudinal_cut(dt_min, dt_max) ==
    /\ pc = "idle"
    /\ LET itemindex == Where(CutCondition(dt, dt_min, dt_max))
       IN id' = MarkLost(id, itemindex)
    /\ last' = "losses_longitudinal_cut"
    /\ UNCHANGED <<dt, dE, theta, n_macroparticles, statVars, trackVars, pc>>

\* Beam.losses_energy_cut
losses_energy_cut(dE_min, dE_max) ==
    /\ pc = "idle"
    /\ LET itemindex == Where(CutCondition(dE, dE_min, dE_max))
       IN id' = MarkLost(id, itemindex)
    /\ last' = "losses_energy_cut"
    /\ UNCHANGED <<dt, dE, theta, n_macroparticles, statVars, trackVars, pc>>

BeamNext ==
    \/ DistributionTime
    \/ DistributionEnergy
    \/ statistics
    \/ \E in_separatrix \in [Particles -> BOOLEAN] : losses_separatrix(in_separatrix)
    \/ \E lo, hi \in Coord : losses_longitudinal_cut(lo, hi)
    \/ \E lo, hi \in Coord : losses_energy_cut(lo, hi)

\* ------------------------------------------------- ring_and_RFstation
\* synchronous momentum and beta at the start (_i) and end (_f) of the
\* turn the counter stands at
p0_i(r) == r.counter * r.counter
p0_f(r) == (r.counter + 1) * (r.counter + 1)
beta_i(r) == r.counter + 1
beta_f(r) == r.counter + 2
\* slip factor; the leading order only, whatever the offset
eta0 == 2
eta(r, d) == eta0
\* beam.delta, the relative momentum offset of particle i
delta(i) == dE[i]

\* ---------------------------------------------------------------- tracker
\* variant: lists of different lengths are refused outright
KickIndexErrorStrict(r, i) ==
    ~(Len(r.harmonic) = Len(r.voltage) /\ Len(r.voltage) = Len(r.phi_offset))

\* Kick.__init__: the three reads, any of which may be out of range
KickIndexError(r, i) ==
    \/ i > Len(r.harmonic)
    \/ i > Len(r.voltage)
    \/ i > Len(r.phi_offset)

Kick(r, i) ==
    [harmonic |-> r.harmonic[i], voltage |-> r.voltage[i],
     phi_offset |-> r.phi_offset[i]]

\* variant: the Drift is placed before the Kick_acceleration
ElementsDriftFirst(n) ==
    [i \in 1..(n + 2) |-> IF i <= n THEN "Kick"
                          ELSE IF i = n + 1 THEN "Drift"
                          ELSE "Kick_acceleration"]

\* self.kicks + [self.kick_acceleration] + [Drift(ring, solver)]
Elements(n) ==
    [i \in 1..(n + 2) |-> IF i <= n THEN "Kick"
                          ELSE IF i = n + 1 THEN "Kick_acceleration"
                          ELSE "Drift"]

\* Longitudinal_tracker.__init__
Longitudinal_tracker(solver) ==
    /\ pc = "idle"
    /\ tracker = NoTracker
    /\ warned' = ~(Len(ring.harmonic) = Len(ring.voltage)
                    /\ Len(ring.voltage) = Len(ring.phi_offset))
    /\ IF \E i \in 1..Len(ring.harmonic) : KickIndexError(ring, i)
       THEN \* Kick.__init__ raises; the tracker is never bound
            /\ raised' = "IndexError"
            /\ pc' = "exited"
            /\ UNCHANGED tracker
       ELSE /\ tracker' = [solver |-> solver,
                           kicks |-> [i \in 1..Len(ring.harmonic) |-> Kick(ring, i)],
                           p_increment |-> 0,
                           elements |-> Elements(Len(ring.harmonic))]
            /\ UNCHANGED <<raised, pc>>
    /\ last' = "Longitudinal_tracker"
    /\ UNCHANGED <<beamVars, ring, longMap, entry, trace, calls>>

\* the for loop of Longitudinal_tracker.track moves on, or the call returns
LoopStep ==
    /\ longMap' = longMap + 1
    /\ pc' = IF longMap = Len(tracker.elements) THEN "idle" ELSE "track"

Ran(el) == Append(trace, [el |-> el, i |-> longMap, counter |-> ring.counter])

\* Longitudinal_tracker.track, up to the loop
track ==
    /\ pc = "idle"
    /\ tracker # NoTracker
    /\ ring.counter < MaxTurns
    /\ tracker' = [tracker EXCEPT !.p_increment = p0_f(ring) - p0_i(ring)]
    /\ pc' = "track"
    /\ longMap' = 1
    /\ entry' = [counter |-> ring.counter, dE |-> dE, theta |-> theta]
    /\ trace' = <<[el |-> "p_increment", i |-> 0, counter |-> ring.counter]>>
    /\ calls' = calls + 1
    /\ last' = "track"
    /\ UNCHANGED <<dt, dE, id, theta, n_macroparticles, statVars, ring,
                   raised, warned>>

\* variant: the kick is assigned (=) where it should be added (+=)
KickEnergyAssign(k, i) ==
    e * k.voltage * Sin(k.harmonic * theta[i] + k.phi_offset)

\* Kick.track
KickEnergy(k, i) ==
    dE[i] + e * k.voltage * Sin(k.harmonic * theta[i] + k.phi_offset)

Kick_track ==
    /\ pc = "track"
    /\ tracker.elements[longMap] = "Kick"
    /\ dE' = [i \in DOMAIN dE |-> KickEnergy(tracker.kicks[longMap], i)]
    /\ trace' = Ran("Kick")
    /\ LoopStep
    /\ UNCHANGED <<dt, id, theta, n_macroparticles, statVars, ring, tracker,
                   raised, warned, entry, calls, last>>

\* Kick_acceleration.track
AccelerationEnergy(i) ==
    dE[i] - ((beta_i(ring) + beta_f(ring)) \div 2) * c * tracker.p_increment

\* variant: the counter advances once per RF system as well
CounterAfterPerElement(r) == r.counter + Len(r.harmonic) + 1

\* self.ring.counter += 1
CounterAfter(r) == r.counter + 1

Kick_acceleration_track ==
    /\ pc = "track"
    /\ tracker.elements[longMap] = "Kick_acceleration"
    /\ dE' = [i \in DOMAIN dE |-> AccelerationEnergy(i)]
    /\ ring' = [ring EXCEPT !.counter = CounterAfter(ring)]
    /\ trace' = Ran("Kick_acceleration")
    /\ LoopStep
    /\ UNCHANGED <<dt, id, theta, n_macroparticles, statVars, tracker,
                   raised, warned, entry, calls, last>>

\* Drift.track: the two entries of the solver dictionary
DriftFull(i) ==
    ((beta_f(ring) * theta[i]) \div beta_i(ring))
    + ((((TwoPi * eta(ring, delta(i)) * delta(i))
            \div (1 - eta(ring, delta(i)) * delta(i)))
         * ring.length) \div ring.circumference)

DriftSimple(i) ==
    theta[i] + ((TwoPi * eta0 * delta(i) * ring.length) \div ring.circumference)

\* variant: an unknown solver falls back to a default (dict.get)
KeyErrorNever(solver) == FALSE

\* the dictionary lookup [self.solver] fails with KeyError
KeyError(solver) == solver \notin {"full", "simple"}

Drift_track ==
    /\ pc = "track"
    /\ tracker.elements[longMap] = "Drift"
    /\ trace' = Ran("Drift")
    /\ IF KeyError(tracker.solver)
       THEN \* print the error, sys.exit()
            /\ raised' = "SystemExit"
            /\ pc' = "exited"
            /\ UNCHANGED <<theta, longMap>>
       ELSE /\ theta' = [i \in DOMAIN theta |->
                           IF tracker.solver = "full" THEN DriftFull(i)
                           ELSE DriftSimple(i)]
            /\ LoopStep
            /\ UNCHANGED raised
    /\ UNCHANGED <<dt, dE, id, n_macroparticles, statVars, ring, tracker,
                   warned, entry, calls, last>>

TrackerNext ==
    \/ \E solver \in Solvers : Longitudinal_tracker(solver)
    \/ track
    \/ Kick_track
    \/ Kick_acceleration_track
    \/ Drift_track

Next == BeamNext \/ TrackerNext

NextTracker == DistributionEnergy \/ TrackerNext

\* the beam operations, interleaved with tracking in a one-harmonic ring
Spec == Init /\ [][Next]_vars

\* the beam operations alone
SpecBeam == Init /\ [][BeamNext]_vars

\* the tracker in every ring configuration
SpecTracker == InitTracker /\ [][NextTracker]_vars
\* ================================================================= claims
LossOps == {"losses_separatrix", "losses_longitudinal_cut", "losses_energy_cut"}
Lo(a, b) == IF a <= b THEN a ELSE b
Hi(a, b) == IF a <= b THEN b ELSE a

\* what a cut leaves in id when it marks exactly the particles in `lost`
CutResult(x, lost(_)) ==
    [i \in DOMAIN id |-> IF lost(x[i]) THEN 0 ELSE id[i]]

C2_LossPermanent ==
    [][\A i \in DOMAIN id : id[i] = 0 => i \in DOMAIN id' /\ id'[i] = 0]_vars

\* a lost particle has been through a later cut that it would have passed
\* and a later track call
C2_Witness ==
    /\ pc = "idle"
    /\ last = "losses_energy_cut"
    /\ calls > 0
    /\ n_macroparticles_lost > 0
    /\ \E i, j \in DOMAIN id : id[i] = 0 /\ id[j] # 0 /\ dE[i] = dE[j]

\* C3: in every reachable state dt, dE and id have n_macroparticles
\* entries, and the id of the particle at (0-based) index i-1 is its
\* original value i or the sentinel 0.
C3_ShapeAndIds ==
    /\ DOMAIN dt = 1..n_macroparticles
    /\ DOMAIN dE = 1..n_macroparticles
    /\ DOMAIN id = 1..n_macroparticles
    /\ \A i \in DOMAIN id : id[i] = i \/ id[i] = 0

\* loss operations and tracking have both run, and particles are lost
C3_Witness ==
    /\ pc = "idle"
    /\ calls > 0
    /\ last \in LossOps
    /\ \E i, j \in DOMAIN id : id[i] = 0 /\ id[j] = j

\* C4: right after statistics(), n_macroparticles_lost is the number of
\* indices with id = 0, n_macroparticles_alive is the number with id # 0,
\* and the two add up to n_macroparticles.
C4_CountsAfterStatistics ==
    last = "statistics" =>
      /\ n_macroparticles_lost = Cardinality({i \in DOMAIN id : id[i] = 0})
      /\ n_macroparticles_alive = Cardinality({i \in DOMAIN id : id[i] # 0})
      /\ n_macroparticles_alive + n_macroparticles_lost = n_macroparticles

\* statistics() has just run on a beam with lost and alive particles
C4_Witness ==
    /\ last = "statistics"
    /\ n_macroparticles_lost > 0
    /\ n_macroparticles_alive > 0

\* the counter is the number of track calls made, less the running call
\* until its Kick_acceleration has run
C5_CounterPerCall ==
    ring.counter = (IF pc = "track" /\ tracker.elements[longMap] # "Drift"
                    THEN calls - 1 ELSE calls)

\* a step that changes the counter is a Kick_acceleration and adds 1
C5_OnlyAcceleration ==
    ring.counter' # ring.counter =>
      /\ pc = "track"
      /\ tracker.elements[longMap] = "Kick_acceleration"
      /\ ring.counter' = ring.counter + 1

\* C5: a track call advances the ring's counter by exactly 1 whatever the
\* number of RF systems; only the Kick_acceleration element changes the
\* counter; after k track calls the counter has advanced by k.
C5_TurnCounter == []C5_CounterPerCall /\ [][C5_OnlyAcceleration]_vars

\* two track calls have returned in a ring with several RF systems
C5_Witness ==
    /\ pc = "idle"
    /\ calls = 2
    /\ ring.counter = 2
    /\ Len(tracker.kicks) >= 2

\* the order of a complete track call over n Kicks
ElementOrder(n) ==
    <<"p_increment">> \o [i \in 1..n |-> "Kick"] \o <<"Kick_acceleration", "Drift">>

\* C6: a track call runs its steps in a fixed order: p_increment is set to
\* p0_f - p0_i, then the Kicks in harmonic-index order, then the
\* Kick_acceleration, which sees the counter of the call's start, then the
\* Drift, which sees the counter already advanced.
C6_ElementOrder ==
    calls > 0 =>
      LET n == Len(tracker.kicks)
          start == [ring EXCEPT !.counter = entry.counter]
      IN /\ Len(trace) <= n + 3
         /\ pc = "track" => Len(trace) = longMap
         /\ pc = "idle" => Len(trace) = n + 3
         /\ tracker.p_increment = p0_f(start) - p0_i(start)
         /\ \A k \in 1..Len(trace) :
              /\ trace[k].el = ElementOrder(n)[k]
              /\ trace[k].i = k - 1
              /\ trace[k].counter = (IF trace[k].el = "Drift"
                                     THEN entry.counter + 1 ELSE entry.counter)

\* a full-solver track call over several Kicks has returned
C6_Witness ==
    /\ pc = "idle"
    /\ last = "track"
    /\ tracker.solver = "full"
    /\ Len(tracker.kicks) >= 2
    /\ trace[Len(trace)].el = "Drift"

\* construction with an unknown solver: no solver error, the solver is
\* stored, and the only failure is a Kick that cannot be built
C7_AtConstruction ==
    \A solver \in Solvers :
      KeyError(solver) /\ Longitudinal_tracker(solver) =>
        /\ raised' # "SystemExit"
        /\ raised' = "none" <=>
             Len(ring.harmonic) <= Lo(Len(ring.voltage), Len(ring.phi_offset))
        /\ raised' = "none" => tracker'.solver = solver /\ pc' = "idle"

\* Drift.track with an unknown solver raises and leaves theta alone
C7_AtDrift ==
    Drift_track /\ tracker.solver \notin {"full", "simple"} =>
      /\ raised' = "SystemExit"
      /\ pc' = "exited"
      /\ theta' = theta

\* nothing runs after the exit
C7_RunEnds == pc = "exited" => UNCHANGED vars

\* C7: a tracker with a solver other than "full" and "simple" is built
\* without any complaint about the solver (construction succeeds whenever
\* the Kicks can be built, and stores the solver); every Drift.track with
\* such a solver raises instead, that ends the run, and theta is as it was
\* (no default solver is applied).
C7_SolverCheckedPerCall ==
    [][C7_AtConstruction /\ C7_AtDrift /\ C7_RunEnds]_vars

\* a tracker with an unknown solver was built and its first track call
\* ended the run in the Drift
C7_Witness ==
    /\ tracker.solver = "other"
    /\ raised = "SystemExit"
    /\ pc = "exited"
    /\ theta = entry.theta

Mismatch(r) ==
    ~(Len(r.harmonic) = Len(r.voltage) /\ Len(r.voltage) = Len(r.phi_offset))
Attempted == last \in {"Longitudinal_tracker", "track"}

\* C8 as stated: with lists of different lengths, construction warns and
\* completes with len(harmonic) + 2 elements; an index-out-of-range
\* failure, if any, happens during tracking and not during construction.
C8_AsStated ==
    Attempted /\ Mismatch(ring) =>
      /\ warned
      /\ tracker # NoTracker
      /\ Len(tracker.elements) = Len(ring.harmonic) + 2
      /\ raised = "IndexError" => last = "track"

\* C8 amended: with lists of different lengths, construction warns; if
\* harmonic is no longer than voltage and phi_offset it completes with
\* len(harmonic) Kicks and len(harmonic) + 2 elements and no
\* index-out-of-range failure happens in tracking; otherwise the failure
\* is raised during construction (in Kick.__init__) and no tracker exists.
C8_MismatchAtConstruction ==
    Attempted /\ Mismatch(ring) =>
      /\ warned
      /\ IF Len(ring.harmonic) <= Lo(Len(ring.voltage), Len(ring.phi_offset))
         THEN /\ tracker # NoTracker
              /\ Len(tracker.kicks) = Len(ring.harmonic)
              /\ Len(tracker.elements) = Len(ring.harmonic) + 2
              /\ raised # "IndexError"
         ELSE /\ tracker = NoTracker
              /\ raised = "IndexError"
              /\ last = "Longitudinal_tracker"
              /\ calls = 0

\* a tracker built with a warning has tracked a full turn over its Kicks
C8_Witness ==
    /\ warned
    /\ Mismatch(ring)
    /\ Len(tracker.kicks) >= 1
    /\ pc = "idle"
    /\ last = "track"

\* C9: a loss operation changes nothing of the beam but id (so
\* n_macroparticles_lost and n_macroparticles_alive keep their old values);
\* statistics() changes nothing of the beam but the five statistics fields
\* and n_macroparticles_lost.
C9_ConfinedEffects ==
    [][/\ last' \in LossOps =>
            /\ UNCHANGED <<dt, dE, theta, n_macroparticles, statVars>>
            /\ n_macroparticles_alive' = n_macroparticles_alive
       /\ last' = "statistics" =>
            UNCHANGED <<id, dt, dE, theta, n_macroparticles>>]_vars

\* a cut has just lost a particle and the counts do not show it yet
C9_Witness ==
    /\ last \in LossOps
    /\ \E i \in DOMAIN id : id[i] = 0
    /\ n_macroparticles_lost = 0
    /\ n_macroparticles_alive = n_macroparticles

\* the energy of particle i after Kicks 1..k of the running call
RECURSIVE EnergyAfterKicks(_, _)
EnergyAfterKicks(i, k) ==
    IF k = 0 THEN entry.dE[i]
    ELSE EnergyAfterKicks(i, k - 1)
         + e * tracker.kicks[k].voltage
           * Sin(tracker.kicks[k].harmonic * entry.theta[i]
                 + tracker.kicks[k].phi_offset)

\* C10: when a track call ends in the unknown-solver error, every Kick and
\* the Kick_acceleration of that call have been applied to dE and the
\* counter is one more than at the start of the call, while theta is as at
\* the start: the call has changed the state.
C10_NotAtomic ==
    raised = "SystemExit" =>
      /\ ring.counter = entry.counter + 1
      /\ theta = entry.theta
      /\ \A i \in DOMAIN dE :
           dE[i] = EnergyAfterKicks(i, Len(tracker.kicks))
                   - ((2 * entry.counter + 3) \div 2) * c * tracker.p_increment
      /\ [el \in {"Kick", "Kick_acceleration"} |->
            Cardinality({k \in DOMAIN trace : trace[k].el = el})]
           = [el \in {"Kick", "Kick_acceleration"} |->
                IF el = "Kick" THEN Len(tracker.kicks) ELSE 1]
      /\ <<dE, theta, ring.counter>> # <<entry.dE, entry.theta, entry.counter>>

\* the run has ended in the Drift with the energies moved by the Kicks
C10_Witness ==
    /\ raised = "SystemExit"
    /\ Len(tracker.kicks) >= 1
    /\ \E i \in DOMAIN dE : dE[i] # entry.dE[i]
====
